---- MODULE Spec2Model ----
(***************************************************************************)
(* api-smoke (src/src/index.ts): a smoke-test runner.  cmdRun drives       *)
(* runTest over config.tests, sequentially (optionally bailing at the      *)
(* first verdict that is not passed) or in parallel (Promise.all);         *)
(* runTest awaits makeRequest and feeds the response to checkAssertions.   *)
(*                                                                         *)
(* The model follows the JavaScript run-to-completion discipline: the      *)
(* main control flow (pc) runs until it awaits; then the microtasks that   *)
(* are runnable (continuations of settled promises) run; only when none    *)
(* is left does the event loop deliver one network or timer event.         *)
(*                                                                         *)
(* Spec runs lists of up to MaxTests tests against a server with two       *)
(* replies; SpecWide runs one test of any shape against more replies and   *)
(* under any --env name.                                                   *)
(*                                                                         *)
(* Optional values (undefined / null) are sequences of length 0 or 1.      *)
(* Strings that are searched are sequences of tokens.                      *)
(***************************************************************************)
EXTENDS Integers, Sequences, FiniteSets, TLC

\* ------------------------------------------------------------------ bounds
\* Largest number of tests in config.tests.
MaxTests == 2

\* args.timeout, in clock ticks.
TimeoutTicks == 1

\* ------------------------------------------------------------ option values
None == <<>>

Some(x) == <<x>>

IsSome(o) == Len(o) = 1

\* ----------------------------------------------------------------- strings
\* s.includes(t): t occurs in s as a contiguous run.
Includes(s, t) ==
  \E off \in 0..(Len(s) - Len(t)) : \A j \in 1..Len(t) : s[off + j] = t[j]

RECURSIVE Flatten(_)
\* Buffer.concat(chunks).toString("utf-8")
Flatten(chunks) ==
  IF chunks = <<>> THEN <<>> ELSE Head(chunks) \o Flatten(Tail(chunks))

\* key.toLowerCase(), on the header names the model uses.
ToLowerCase(name) ==
  CASE name = "Content-Type" -> "content-type"
    [] name = "X-Served-By" -> "x-served-by"
    [] OTHER -> name

\* ------------------------------------------------------------ JSON values
\* A JSON value is a record: t is "str", "num", "null", "obj" or the
\* JavaScript-only "undefined" and "text" (a body that did not parse); a is
\* the atom's text; kv is the object's entries, in insertion order.
JStr(a) == [t |-> "str", a |-> a, kv |-> <<>>]

JNum(a) == [t |-> "num", a |-> a, kv |-> <<>>]

JObj(kv) == [t |-> "obj", a |-> "", kv |-> kv]

JUndefined == [t |-> "undefined", a |-> "", kv |-> <<>>]

JText(raw) == [t |-> "text", a |-> "", kv |-> raw]

\* The truthiness of a value: `v ? ... : ...`
JTruthy(v) ==
  ~ \/ v.t \in {"null", "undefined"}
    \/ v.t = "num" /\ v.a = "0"
    \/ v.t = "str" /\ v.a = ""

RECURSIVE Stringify(_)
RECURSIVE StringifyEntries(_)
\* JSON.stringify(v) as a token sequence: an object's entries are written in
\* insertion order; undefined yields the value undefined, not a text.
Stringify(v) ==
  CASE v.t = "str" -> <<"\"", v.a, "\"">>
    [] v.t = "num" -> <<v.a>>
    [] v.t = "null" -> <<"null">>
    [] v.t = "text" -> <<"\"">> \o v.kv \o <<"\"">>
    [] v.t = "obj" -> <<"{">> \o StringifyEntries(v.kv) \o <<"}">>
    [] OTHER -> <<"undefined">>

StringifyEntries(kv) ==
  IF kv = <<>> THEN <<>>
  ELSE <<"\"", kv[1][1], "\"", ":">> \o Stringify(kv[1][2])
       \o (IF Len(kv) > 1 THEN <<",">> ELSE <<>>) \o StringifyEntries(Tail(kv))

\* obj[key] for an object's entries: the last entry with that key, else undefined.
Lookup(kv, key) ==
  IF \E j \in 1..Len(kv) : kv[j][1] = key
  THEN kv[CHOOSE j \in 1..Len(kv) :
            kv[j][1] = key /\ \A m \in (j + 1)..Len(kv) : kv[m][1] # key][2]
  ELSE JUndefined

\* --------------------------------------------------------- response bodies
\* The raw bodies a server of the model sends, with the value JSON.parse
\* gives for each; any other text does not parse.
RawOk == <<"{", "\"", "status", "\"", ":", "\"", "ok", "\"", "}">>

RawId == <<"{", "\"", "id", "\"", ":", "1", "}">>

RawUser ==
  <<"{", "\"", "user", "\"", ":",
    "{", "\"", "id", "\"", ":", "1", ",", "\"", "name", "\"", ":", "\"", "a", "\"", "}",
    "}">>

ParsesAsJSON(raw) == raw \in {RawOk, RawId, RawUser}

JSONParse(raw) ==
  CASE raw = RawOk -> JObj(<< <<"status", JStr("ok")>> >>)
    [] raw = RawId -> JObj(<< <<"id", JNum("1")>> >>)
    [] raw = RawUser ->
         JObj(<< <<"user", JObj(<< <<"id", JNum("1")>>, <<"name", JStr("a")>> >>)>> >>)

\* let parsedBody = rawBody; try { parsedBody = JSON.parse(rawBody) } catch {}
ParsedBody(raw) == IF ParsesAsJSON(raw) THEN JSONParse(raw) ELSE JText(raw)

\* What a server sends for one request: status line, headers, body chunks
\* (a 200 with a JSON body in one chunk, a 500 with an empty body).
ServerReplies ==
  { [status |-> 200, headers |-> << <<"content-type", <<"application", "/", "json">> >> >>,
     chunks |-> << <<"{", "\"", "status", "\"", ":", "\"", "ok", "\"", "}">> >>],
    [status |-> 500, headers |-> <<>>, chunks |-> <<>>] }

\* The replies of the servers those tests are run against: the two above,
\* a 404 whose body is plain text, and a 200 whose JSON body has a nested
\* record.
AnyReplies ==
  ServerReplies \cup
  { [status |-> 404, headers |-> << <<"content-type", <<"text", "/", "plain">> >> >>,
     chunks |-> << <<"not", "found">> >>],
    [status |-> 200, headers |-> << <<"content-type", <<"application", "/", "json">> >> >>,
     chunks |-> << <<"{", "\"", "user", "\"", ":">>,
                   <<"{", "\"", "id", "\"", ":", "1", ",", "\"", "name", "\"", ":",
                     "\"", "a", "\"", "}", "}">> >>] }

\* resolve({status, headers, body, bodyRaw}) of the 'end' handler, from the
\* chunks the 'data' handler has pushed.
NormalizedResponse(reply, got) ==
  LET rawBody == Flatten(SubSeq(reply.chunks, 1, got))
  IN  [status |-> reply.status, headers |-> reply.headers,
       body |-> ParsedBody(rawBody), bodyRaw |-> rawBody]

\* response.headers[name]
HeaderValue(headers, name) ==
  IF \E j \in 1..Len(headers) : headers[j][1] = name
  THEN Some(headers[CHOOSE j \in 1..Len(headers) : headers[j][1] = name][2])
  ELSE None

\* ------------------------------------------------------- test definitions
\* The text of a status code inside a message.
StatusText(n) ==
  CASE n = 200 -> "200"
    [] n = 500 -> "500"
    [] OTHER -> "0"

NoExpectations ==
  [status |-> None, body |-> None, bodyContains |-> None,
   bodyNotContains |-> None, headerContains |-> None]

\* interface TestCase: the tests a config of the model is made of.  hasExpect
\* is FALSE for a test authored without an expect block (cmdValidate only
\* warns about it); `expect` is then not read.
HealthTest ==
  [name |-> "Health check", path |-> <<"/health">>, method |-> Some("GET"),
   headers |-> <<>>, body |-> None, hasExpect |-> TRUE,
   expect |-> [status |-> Some(200),
               body |-> Some(<< <<"status", JStr("ok")>> >>),
               bodyContains |-> Some([arr |-> TRUE, v |-> << <<"ok">>, <<"id">> >>]),
               bodyNotContains |-> Some([arr |-> FALSE, v |-> << <<"down">> >>]),
               headerContains |-> Some(<< <<"Content-Type", <<"json">> >> >>)]]

CreateTest ==
  [name |-> "Create user", path |-> <<"/users">>, method |-> Some("POST"),
   headers |-> << <<"Content-Type", <<"application", "/", "json">> >> >>,
   body |-> Some(JObj(<< <<"name", JStr("Test User")>> >>)), hasExpect |-> TRUE,
   expect |-> NoExpectations]

BareTest ==
  [name |-> "Ping", path |-> <<"/ping">>, method |-> None,
   headers |-> <<>>, body |-> None, hasExpect |-> FALSE,
   expect |-> NoExpectations]

BadPortTest ==
  [name |-> "Admin", path |-> <<":99999", "/admin">>, method |-> Some("GET"),
   headers |-> <<>>, body |-> None, hasExpect |-> TRUE,
   expect |-> [NoExpectations EXCEPT !.status = Some(200)]]

TestDefs == {HealthTest, CreateTest, BareTest, BadPortTest}

\* Further tests: each has one kind of expectation or one
\* shape of request.
PlainTest ==
  [name |-> "Plain", path |-> <<"/x">>, method |-> None,
   headers |-> <<>>, body |-> None, hasExpect |-> TRUE,
   expect |-> NoExpectations]

NotFoundTest ==
  [PlainTest EXCEPT !.name = "Missing page", !.expect.status = Some(404)]

\* expect.body.user with the keys in the order the server writes them, and
\* in the other order.
UserTest ==
  [PlainTest EXCEPT
     !.name = "User",
     !.expect.status = Some(200),
     !.expect.body =
       Some(<< <<"user", JObj(<< <<"id", JNum("1")>>, <<"name", JStr("a")>> >>)>> >>)]

UserSwappedTest ==
  [PlainTest EXCEPT
     !.name = "User swapped",
     !.expect.body =
       Some(<< <<"user", JObj(<< <<"name", JStr("a")>>, <<"id", JNum("1")>> >>)>> >>)]

\* bodyContains / bodyNotContains given as one string; the empty string.
TermTest ==
  [PlainTest EXCEPT
     !.name = "Terms",
     !.expect.status = Some(200),
     !.expect.bodyContains = Some([arr |-> FALSE, v |-> << <<"found">> >>]),
     !.expect.bodyNotContains = Some([arr |-> TRUE, v |-> << <<"ok">>, <<"a">> >>]),
     !.expect.headerContains = Some(<< <<"X-Served-By", <<"edge">> >> >>)]

EmptyTermTest ==
  [PlainTest EXCEPT
     !.name = "Empty term",
     !.expect.bodyNotContains = Some([arr |-> FALSE, v |-> << <<>> >>])]

\* Requests with a body: the number 0; a record with a caller's
\* content-type header in lower case; a record with no caller header.
ZeroBodyTest ==
  [PlainTest EXCEPT !.name = "Reset counter", !.method = Some("PUT"),
                    !.body = Some(JNum("0"))]

LowerCaseTest ==
  [PlainTest EXCEPT
     !.name = "Lower case", !.method = Some("POST"),
     !.headers = << <<"content-type", <<"text", "/", "plain">> >> >>,
     !.body = Some(JObj(<< <<"name", JStr("Test User")>> >>))]

JsonBodyTest ==
  [PlainTest EXCEPT
     !.name = "Json body", !.method = Some("POST"),
     !.headers = << <<"Authorization", <<"Basic", "u">> >> >>,
     !.body = Some(JObj(<< <<"name", JStr("Test User")>> >>))]

WideTests ==
  TestDefs \cup {PlainTest, NotFoundTest, UserTest, UserSwappedTest, TermTest,
                 EmptyTermTest, ZeroBodyTest, LowerCaseTest, JsonBodyTest}

\* ------------------------------------------------------- checkAssertions
\* A truthy bodyContains / bodyNotContains: an array, or a non-empty string.
Truthy(strs) == IsSome(strs) /\ (strs[1].arr \/ strs[1].v[1] # <<>>)

\* Array.isArray(x) ? x : [x]
Terms(strs) == strs[1].v

\* Mutant of StatusChecks: the detail is set whether or not the check passed.
StatusChecks_DetailAlways(test, response) ==
  IF IsSome(test.expect.status)
  THEN << [kind |-> "status", key |-> <<StatusText(test.expect.status[1])>>,
           passed |-> response.status = test.expect.status[1],
           detail |-> Some(<<"Got", StatusText(response.status)>>)] >>
  ELSE <<>>

StatusChecks(test, response) ==
  IF IsSome(test.expect.status)
  THEN LET passed == response.status = test.expect.status[1]
       IN  << [kind |-> "status", key |-> <<StatusText(test.expect.status[1])>>,
               passed |-> passed,
               detail |-> IF passed THEN None
                          ELSE Some(<<"Got", StatusText(response.status)>>)] >>
  ELSE <<>>

\* typeof response.body === "object" ? response.body?.[key] : undefined
BodyField(body, key) ==
  IF body.t = "obj" THEN Lookup(body.kv, key) ELSE JUndefined

BodyChecks(test, response) ==
  IF IsSome(test.expect.body)
  THEN [j \in 1..Len(test.expect.body[1]) |->
          LET key == test.expect.body[1][j][1]
              expected == test.expect.body[1][j][2]
              actual == BodyField(response.body, key)
              passed == Stringify(actual) = Stringify(expected)
          IN  [kind |-> "body", key |-> <<key>> \o Stringify(expected),
               passed |-> passed,
               detail |-> IF passed THEN None
                          ELSE Some(<<"Got">> \o Stringify(actual))]]
  ELSE <<>>

ContainsChecks(test, response) ==
  IF Truthy(test.expect.bodyContains)
  THEN [j \in 1..Len(Terms(test.expect.bodyContains)) |->
          LET term == Terms(test.expect.bodyContains)[j]
          IN  [kind |-> "contains", key |-> term,
               passed |-> Includes(response.bodyRaw, term), detail |-> None]]
  ELSE <<>>

NotContainsChecks(test, response) ==
  IF Truthy(test.expect.bodyNotContains)
  THEN [j \in 1..Len(Terms(test.expect.bodyNotContains)) |->
          LET term == Terms(test.expect.bodyNotContains)[j]
          IN  [kind |-> "notContains", key |-> term,
               passed |-> ~Includes(response.bodyRaw, term), detail |-> None]]
  ELSE <<>>

HeaderChecks(test, response) ==
  IF IsSome(test.expect.headerContains)
  THEN [j \in 1..Len(test.expect.headerContains[1]) |->
          LET key == test.expect.headerContains[1][j][1]
              expected == test.expect.headerContains[1][j][2]
              actual == HeaderValue(response.headers, ToLowerCase(key))
              passed == IF IsSome(actual) /\ actual[1] # <<>>
                        THEN Includes(actual[1], expected) ELSE FALSE
          IN  [kind |-> "header", key |-> <<key>> \o expected,
               passed |-> passed,
               detail |-> IF passed THEN None
                          ELSE Some(<<"Got", "\"">>
                                    \o (IF IsSome(actual) /\ actual[1] # <<>>
                                        THEN actual[1] ELSE <<"(missing)}">>))]]
  ELSE <<>>

\* Mutant of checkAssertions: the checks stop at a failed status check.
checkAssertions_ShortCircuit(test, response) ==
  IF \E j \in 1..Len(StatusChecks(test, response)) :
       ~StatusChecks(test, response)[j].passed
  THEN StatusChecks(test, response)
  ELSE StatusChecks(test, response) \o BodyChecks(test, response)
       \o ContainsChecks(test, response) \o NotContainsChecks(test, response)
       \o HeaderChecks(test, response)

checkAssertions(test, response) ==
  StatusChecks(test, response) \o BodyChecks(test, response)
  \o ContainsChecks(test, response) \o NotContainsChecks(test, response)
  \o HeaderChecks(test, response)

\* Mutant of Every: some() in place of every().
Every_Some(assertions) == \E j \in 1..Len(assertions) : assertions[j].passed

\* result.assertions.every((a) => a.passed)
Every(assertions) == \A j \in 1..Len(assertions) : assertions[j].passed

\* ------------------------------------------------------------------ state
VARIABLES
  args,      \* ParsedArgs: parallel, bail, json, env
  config,    \* SmokeConfig: environments, tests
  pc,        \* where cmdRun / main stands
  k,         \* the loop index of cmdRun (for .. of / map), 1-based
  req,       \* per test: the request and the promise of makeRequest
  run,       \* per test: the promise of runTest
  verdict,   \* per test: the TestResult runTest returned, if any
  results,   \* cmdRun's results array
  firstDone, \* the test whose runTest returned first (0: none yet)
  out,       \* what was written to the console, in order
  exitCode   \* the process exit code, once the process has ended

vars ==
  <<args, config, pc, k, req, run, verdict, results, firstDone, out, exitCode>>

N == Len(config.tests)

Idx == 1..N

\* -------------------------------------------------------------- environment
Environments ==
  [default |-> [baseUrl |-> <<"http:", "//api.example.com">>,
                headers |-> << <<"Authorization", <<"Bearer", "t">> >> >>],
   staging |-> [baseUrl |-> <<"https:", "//staging.example.com">>,
                headers |-> <<>>]]

\* config.environments?.[args.env] || config.environments?.["default"]
ResolveEnv(cfg, a) ==
  IF IsSome(cfg.environments) /\ a.env \in DOMAIN cfg.environments[1]
  THEN Some(cfg.environments[1][a.env])
  ELSE IF IsSome(cfg.environments) /\ "default" \in DOMAIN cfg.environments[1]
       THEN Some(cfg.environments[1]["default"])
       ELSE None

\* env?.baseUrl || ""
BaseUrl(cfg, a) ==
  IF IsSome(ResolveEnv(cfg, a)) THEN ResolveEnv(cfg, a)[1].baseUrl ELSE <<>>

\* env?.headers || {}
EnvHeaders(cfg, a) ==
  IF IsSome(ResolveEnv(cfg, a)) THEN ResolveEnv(cfg, a)[1].headers ELSE <<>>

\* ------------------------------------------------------------- makeRequest
\* new URL(url) succeeds: an absolute http(s) URL whose port is in range.
URLParses(url) ==
  /\ Len(url) >= 2
  /\ url[1] \in {"http:", "https:"}
  /\ \A j \in 1..Len(url) : url[j] # ":99999"

\* { ...a, ...b } on objects kept as entries in insertion order: a key of a
\* keeps its place and takes b's value; b's other keys follow.  Keys are
\* compared as authored.
Spread(a, b) ==
  [j \in 1..Len(a) |->
     IF IsSome(HeaderValue(b, a[j][1]))
     THEN <<a[j][1], HeaderValue(b, a[j][1])[1]>> ELSE a[j]]
  \o SelectSeq(b, LAMBDA e : ~IsSome(HeaderValue(a, e[1])))

\* const bodyStr = body ? JSON.stringify(body) : undefined
BodyStr(body) ==
  IF IsSome(body) /\ JTruthy(body[1]) THEN Some(Stringify(body[1])) ELSE None

\* reqHeaders: the identifying header, the caller's headers over it, and
\* Content-Type: application/json when a body is sent and
\* reqHeaders["Content-Type"] is not set (or is the empty string).
ReqHeaders(headers, body) ==
  LET merged == Spread(<< <<"User-Agent", <<"api-smoke/1.0.0">> >> >>, headers)
      own == HeaderValue(merged, "Content-Type")
  IN  IF IsSome(BodyStr(body)) /\ ~(IsSome(own) /\ own[1] # <<>>)
      THEN Spread(merged, << <<"Content-Type", <<"application", "/", "json">> >> >>)
      ELSE merged

NoRequest ==
  [phase |-> "none", promise |-> "none", reply |-> None, got |-> 0,
   elapsed |-> 0, idle |-> 0, err |-> None, settles |-> 0,
   method |-> "", headers |-> <<>>, written |-> None]

\* resolve(value) / reject(err) on the promise of makeRequest: only the
\* first call settles it.
Resolve(r) ==
  [r EXCEPT !.promise = IF @ = "pending" THEN "resolved" ELSE @,
            !.settles = @ + 1]

\* Mutant of Reject: a later call overwrites the settlement.
Reject_Overwrite(r, message) ==
  [r EXCEPT !.promise = "rejected", !.err = Some(message), !.settles = @ + 1]

Reject(r, message) ==
  [r EXCEPT !.promise = IF @ = "pending" THEN "rejected" ELSE @,
            !.err = IF r.promise = "pending" THEN Some(message) ELSE @,
            !.settles = @ + 1]

\* The executor of makeRequest: a throw of new URL rejects the promise;
\* otherwise the request is issued with reqHeaders (client.request), the
\* body is written if bodyStr is set (req.write) and the request ends.
makeRequest(url, method, headers, body) ==
  IF URLParses(url)
  THEN [NoRequest EXCEPT !.phase = "sent", !.promise = "pending",
                         !.method = method,
                         !.headers = ReqHeaders(headers, body),
                         !.written = BodyStr(body)]
  ELSE Reject([NoRequest EXCEPT !.promise = "pending"], "Invalid URL")

Settled(r) == r.promise \in {"resolved", "rejected"}

InFlight(r) == r.phase \in {"sent", "receiving"}

\* The request's socket is gone: its idle timer is cleared with it, and an
\* unfinished response is dropped with its chunks.
Closed(r, phase) ==
  [r EXCEPT !.phase = phase, !.idle = 0, !.elapsed = 0,
            !.got = IF phase = "ended" THEN @ ELSE 0,
            !.reply = IF phase = "ended" THEN @ ELSE None]

\* The socket has been idle for args.timeout: its 'timeout' event is due.  It
\* fires unless socket activity of the same tick comes first and restarts
\* the idle timer.
Due(r) == InFlight(r) /\ r.idle >= TimeoutTicks

\* ----------------------------------------------------------------- runTest
\* const result: TestResult = { ... } (lines 329-337).  The timing fields
\* (responseTime, duration) are measurements no control flow reads; they are
\* left out of the results.
InitialResult(test) ==
  [name |-> test.name, passed |-> FALSE, status |-> None,
   expectedStatus |-> IF IsSome(test.expect.status) /\ test.expect.status[1] # 0
                      THEN test.expect.status ELSE None,
   assertions |-> <<>>, error |-> None]

\* Mutant of TryBranch: a status of 400 or more is thrown as an error.
TryBranch_RaiseForStatus(test, response) ==
  IF response.status >= 400
  THEN [InitialResult(test) EXCEPT !.error = Some("Request failed")]
  ELSE [InitialResult(test) EXCEPT
          !.status = Some(response.status),
          !.assertions = checkAssertions(test, response),
          !.passed = Every(checkAssertions(test, response))]

\* The try branch after the await (lines 344-347).
TryBranch(test, response) ==
  LET assertions == checkAssertions(test, response)
  IN  [InitialResult(test) EXCEPT !.status = Some(response.status),
                                  !.assertions = assertions,
                                  !.passed = Every(assertions)]

\* Mutant of CatchBranch: the failure is swallowed, the message is not kept.
CatchBranch_Swallow(test, message) == InitialResult(test)

\* The catch branch (lines 349-351).
CatchBranch(test, message) ==
  [InitialResult(test) EXCEPT !.error = Some(message), !.passed = FALSE]

\* The TestResult runTest returns once the promise of makeRequest has settled.
RunTestResult(test, r) ==
  IF r.promise = "resolved"
  THEN TryBranch(test, NormalizedResponse(r.reply[1], r.got))
  ELSE CatchBranch(test, r.err[1])

\* `${baseUrl}${test.path}`
Url(test) == BaseUrl(config, args) \o test.path

\* { ...envHeaders, ...(test.headers || {}) }
Headers(test) == Spread(EnvHeaders(config, args), test.headers)

\* test.method || "GET"
Method(test) ==
  IF IsSome(test.method) /\ test.method[1] # "" THEN test.method[1] ELSE "GET"

\* runTest resumes after `await makeRequest(...)` as soon as that promise has
\* settled (a microtask: no event comes in between) and returns its result.
\* `r` is the request of test i after the step that is being taken.
Resume(i, r) ==
  /\ req' = [req EXCEPT ![i] = r]
  /\ IF Settled(r) /\ ~Settled(req[i])
     THEN /\ verdict' = [verdict EXCEPT ![i] = Some(RunTestResult(config.tests[i], r))]
          /\ run' = [run EXCEPT ![i] = "resolved"]
          /\ firstDone' = IF firstDone = 0 THEN i ELSE firstDone
     ELSE /\ run' = [run EXCEPT ![i] = IF @ = "none" THEN "pending" ELSE @]
          /\ UNCHANGED <<verdict, firstDone>>

\* runTest(test, ...): building `result` reads test.expect.status, which
\* throws for a test without an expect block (the promise of runTest is
\* rejected); otherwise makeRequest is called and awaited.
RunTestCall(i) ==
  IF config.tests[i].hasExpect
  THEN Resume(i, makeRequest(Url(config.tests[i]), Method(config.tests[i]),
                             Headers(config.tests[i]), config.tests[i].body))
  ELSE /\ run' = [run EXCEPT ![i] = "rejected"]
       /\ UNCHANGED <<req, verdict, firstDone>>

\* A microtask is runnable: the continuation of cmdRun's await.
MicrotaskReady ==
  \/ pc = "await" /\ run[k] \in {"resolved", "rejected"}
  \/ pc = "awaitAll" /\ (\A i \in Idx : run[i] = "resolved")
  \/ pc = "awaitAll" /\ (\E i \in Idx : run[i] = "rejected")

\* The event loop is free to deliver an event.
InEventLoop == pc \in {"await", "awaitAll", "returned"} /\ ~MicrotaskReady

\* ------------------------------------------------- network and timer events
\* The response callback of client.request: status line and headers arrived;
\* the 'data' and 'end' listeners are attached to res.
ResponseArrives(i, reply) ==
  /\ InEventLoop
  /\ req[i].phase = "sent"
  /\ Resume(i, [req[i] EXCEPT !.phase = "receiving", !.reply = Some(reply),
                                !.idle = 0])
  /\ UNCHANGED <<args, config, pc, k, results, out, exitCode>>

\* res.on("data"): one more chunk of the body.
ResData(i) ==
  /\ InEventLoop
  /\ req[i].phase = "receiving"
  /\ req[i].got < Len(req[i].reply[1].chunks)
  /\ Resume(i, [req[i] EXCEPT !.got = @ + 1, !.idle = 0])
  /\ UNCHANGED <<args, config, pc, k, results, out, exitCode>>

\* res.on("end"): the body is complete; the promise is resolved.
ResEnd(i) ==
  /\ InEventLoop
  /\ req[i].phase = "receiving"
  /\ req[i].got = Len(req[i].reply[1].chunks)
  /\ Resume(i, Resolve(Closed(req[i], "ended")))
  /\ UNCHANGED <<args, config, pc, k, results, out, exitCode>>

\* req.on("error", reject): the connection cannot be established, or the
\* socket reports an error while the response is arriving.
ReqError(i) ==
  /\ InEventLoop
  /\ InFlight(req[i])
  /\ Resume(i, Reject(Closed(req[i], "failed"),
                      IF req[i].phase = "sent" THEN "connect ECONNREFUSED"
                      ELSE "read ECONNRESET"))
  /\ UNCHANGED <<args, config, pc, k, results, out, exitCode>>

\* The peer closes the connection before the body is complete: res emits
\* 'aborted' and 'close', for which makeRequest registers no listener, and
\* neither 'end' nor the request's 'error' follows.
ResAborted(i) ==
  /\ InEventLoop
  /\ req[i].phase = "receiving"
  /\ req[i].got < Len(req[i].reply[1].chunks)
  /\ Resume(i, Closed(req[i], "aborted"))
  /\ UNCHANGED <<args, config, pc, k, results, out, exitCode>>

\* req.on("timeout"): req.destroy(), then reject(new Error("Timeout ...")).
\* A request destroyed before any response arrived still has its 'error'
\* event (socket hang up) to come; one destroyed while the response was
\* arriving only has res emit 'aborted' and 'close'.
ReqTimeout(i) ==
  /\ InEventLoop
  /\ Due(req[i])
  /\ Resume(i, Reject(Closed(req[i], IF req[i].phase = "sent" THEN "destroyed"
                                        ELSE "closed"),
                      "Timeout after ms"))
  /\ UNCHANGED <<args, config, pc, k, results, out, exitCode>>

\* The socket of a request destroyed before any response closes: the request
\* emits 'error' (socket hang up), and the handler calls reject once more.
DestroyedCloses(i) ==
  /\ InEventLoop
  /\ req[i].phase = "destroyed"
  /\ Resume(i, Reject(Closed(req[i], "closed"), "socket hang up"))
  /\ UNCHANGED <<args, config, pc, k, results, out, exitCode>>

\* Time passes while requests are in flight: each one's time since it was
\* issued (elapsed, followed up to one tick past args.timeout) and since its
\* socket was last active (idle) advances.  No tick passes over a due timeout.
Tick ==
  /\ InEventLoop
  /\ \E i \in Idx : InFlight(req[i])
  /\ \A i \in Idx : ~Due(req[i])
  /\ req' = [i \in Idx |->
               IF InFlight(req[i])
               THEN [req[i] EXCEPT !.idle = @ + 1,
                                   !.elapsed = IF @ > TimeoutTicks THEN @ ELSE @ + 1]
               ELSE req[i]]
  /\ UNCHANGED <<args, config, pc, k, run, verdict, results, firstDone, out, exitCode>>

\* ------------------------------------------------------------------ output
Count(rs, wanted) == Cardinality({j \in 1..Len(rs) : rs[j].passed = wanted})

Line(type, rs) ==
  [type |-> type, environment |-> args.env, baseUrl |-> BaseUrl(config, args),
   total |-> Len(rs), passed |-> Count(rs, TRUE), failed |-> Len(rs) - Count(rs, TRUE),
   results |-> rs]

\* Mutant of JsonReport: `failed` counts the transport failures only.
JsonReport_FailedErrors(rs) ==
  [Line("json", rs) EXCEPT
     !.failed = Cardinality({j \in 1..Len(rs) : IsSome(rs[j].error)})]

\* JSON.stringify({environment, baseUrl, total, passed, failed, ..., results})
JsonReport(rs) ==
  [Line("json", rs) EXCEPT !.failed = Count(rs, FALSE)]

\* printRunSummary(results, duration)
SummaryReport(rs) == Line("summary", rs)

\* Mutant of PrintResults: the results are printed last to first.
PrintResults_Reversed(rs) ==
  IF args.json THEN <<>>
  ELSE [j \in 1..Len(rs) |-> Line("test", <<rs[Len(rs) + 1 - j]>>)]

\* printTestResult(result, verbose) for each result of rs, unless --json.
PrintResults(rs) ==
  IF args.json THEN <<>> ELSE [j \in 1..Len(rs) |-> Line("test", <<rs[j]>>)]

\* ------------------------------------------------------------------ cmdRun
\* Lines 400-413: resolve the environment, print the header, results = [].
Start ==
  /\ pc = "start"
  /\ out' = IF args.json THEN out ELSE Append(out, Line("header", <<>>))
  /\ pc' = IF args.parallel THEN "map" ELSE "loop"
  /\ UNCHANGED <<args, config, k, req, run, verdict, results, firstDone, exitCode>>

\* Mutant of ShouldBail: the test of the verdict is inverted.
ShouldBail_Inverted(a, result) == a.bail /\ result.passed

\* Mutant of ShouldBail: only a transport failure stops the run.
ShouldBail_ErrorsOnly(a, result) == a.bail /\ IsSome(result.error)

\* args.bail && !result.passed
ShouldBail(a, result) == a.bail /\ ~result.passed

\* Mutant of SeqLoop: runTest is called without await, so the loop goes on to
\* the next test at once.
SeqLoop_NoAwait ==
  /\ pc = "loop"
  /\ ~args.parallel
  /\ IF k <= N
     THEN /\ RunTestCall(k)
          /\ k' = k + 1
          /\ UNCHANGED pc
     ELSE /\ pc' = "report"
          /\ UNCHANGED <<k, req, run, verdict, firstDone>>
  /\ UNCHANGED <<args, config, results, out, exitCode>>

\* for (const test of config.tests) { const result = await runTest(...)
SeqLoop ==
  /\ pc = "loop"
  /\ ~args.parallel
  /\ IF k <= N
     THEN /\ RunTestCall(k)
          /\ pc' = "await"
     ELSE /\ pc' = "report"
          /\ UNCHANGED <<req, run, verdict, firstDone>>
  /\ UNCHANGED <<args, config, k, results, out, exitCode>>

\* results.push(result)
SeqPush ==
  /\ pc = "await"
  /\ run[k] = "resolved"
  /\ results' = Append(results, verdict[k][1])
  /\ pc' = "print"
  /\ UNCHANGED <<args, config, k, req, run, verdict, firstDone, out, exitCode>>

\* if (!args.json) printTestResult(result, args.verbose)
SeqPrint ==
  /\ pc = "print"
  /\ out' = out \o PrintResults(<<results[Len(results)]>>)
  /\ pc' = "bail"
  /\ UNCHANGED <<args, config, k, req, run, verdict, results, firstDone, exitCode>>

\* if (args.bail && !result.passed) { ...; break }
SeqBail ==
  /\ pc = "bail"
  /\ IF ShouldBail(args, results[Len(results)])
     THEN /\ out' = IF args.json THEN out ELSE Append(out, Line("bail", <<>>))
          /\ pc' = "report"
          /\ UNCHANGED k
     ELSE /\ k' = k + 1
          /\ pc' = "loop"
          /\ UNCHANGED out
  /\ UNCHANGED <<args, config, req, run, verdict, results, firstDone, exitCode>>

\* The promise of runTest is rejected: the await throws, cmdRun and main
\* reject.
SeqThrown ==
  /\ pc = "await"
  /\ run[k] = "rejected"
  /\ pc' = "fatal"
  /\ UNCHANGED <<args, config, k, req, run, verdict, results, firstDone, out, exitCode>>

\* config.tests.map((test) => runTest(...)): every test is started in turn.
ParMap ==
  /\ pc = "map"
  /\ IF k <= N
     THEN /\ RunTestCall(k)
          /\ k' = k + 1
          /\ UNCHANGED pc
     ELSE /\ pc' = "awaitAll"
          /\ UNCHANGED <<k, req, run, verdict, firstDone>>
  /\ UNCHANGED <<args, config, results, out, exitCode>>

\* Mutant of AllSettled: the results come in completion order, the first
\* test to settle first.
AllSettled_CompletionOrder ==
  [j \in Idx |-> IF j = 1 THEN verdict[firstDone][1]
                 ELSE IF j <= firstDone THEN verdict[j - 1][1]
                 ELSE verdict[j][1]]

\* Mutant of AllSettled: with --bail the results stop at the first verdict
\* that is not passed, as in the sequential loop.
AllSettled_Bail ==
  LET all == [i \in Idx |-> verdict[i][1]]
      bad == {i \in Idx : ~all[i].passed}
  IN  IF args.bail /\ bad # {}
      THEN SubSeq(all, 1, CHOOSE i \in bad : \A j \in bad : i <= j)
      ELSE all

\* The array Promise.all resolves to.
AllSettled == [i \in Idx |-> verdict[i][1]]

\* const settled = await Promise.all(promises); results.push(...settled)
ParPush ==
  /\ pc = "awaitAll"
  /\ \A i \in Idx : run[i] = "resolved"
  /\ results' = results \o AllSettled
  /\ pc' = "printAll"
  /\ UNCHANGED <<args, config, k, req, run, verdict, firstDone, out, exitCode>>

\* Promise.all rejects as soon as one promise of runTest is rejected.
ParThrown ==
  /\ pc = "awaitAll"
  /\ \E i \in Idx : run[i] = "rejected"
  /\ pc' = "fatal"
  /\ UNCHANGED <<args, config, k, req, run, verdict, results, firstDone, out, exitCode>>

\* for (const result of results) printTestResult(result, args.verbose)
ParPrint ==
  /\ pc = "printAll"
  /\ out' = out \o PrintResults(results)
  /\ pc' = "report"
  /\ UNCHANGED <<args, config, k, req, run, verdict, results, firstDone, exitCode>>

\* Lines 445-461: the report, as JSON or as a summary.
Report ==
  /\ pc = "report"
  /\ out' = Append(out, IF args.json THEN JsonReport(results)
                        ELSE SummaryReport(results))
  /\ pc' = "exit"
  /\ UNCHANGED <<args, config, k, req, run, verdict, results, firstDone, exitCode>>

\* results.some((r) => !r.passed)
SomeNotPassed(rs) == \E j \in 1..Len(rs) : ~rs[j].passed

\* if (results.some((r) => !r.passed)) process.exit(1); else cmdRun returns.
Exit ==
  /\ pc = "exit"
  /\ IF SomeNotPassed(results)
     THEN /\ exitCode' = Some(1)
          /\ pc' = "exited"
     ELSE /\ pc' = "returned"
          /\ UNCHANGED exitCode
  /\ UNCHANGED <<args, config, k, req, run, verdict, results, firstDone, out>>

\* main().catch((err) => { console.error(...); process.exit(1) })
Fatal ==
  /\ pc = "fatal"
  /\ out' = Append(out, Line("fatal", <<>>))
  /\ exitCode' = Some(1)
  /\ pc' = "exited"
  /\ UNCHANGED <<args, config, k, req, run, verdict, results, firstDone>>

\* A socket or a pending close keeps the process alive.
LiveHandles == \E i \in Idx : req[i].phase \in {"sent", "receiving", "destroyed"}

\* Nothing is left to wait for: the process ends by itself, with code 0,
\* whether or not main has returned.
Drain ==
  /\ InEventLoop
  /\ ~LiveHandles
  /\ exitCode' = Some(0)
  /\ pc' = "exited"
  /\ UNCHANGED <<args, config, k, req, run, verdict, results, firstDone, out>>

\* ----------------------------------------------------------- specification
TestLists == UNION {[1..n -> TestDefs] : n \in 0..MaxTests}

Init ==
  /\ args \in [parallel : BOOLEAN, bail : BOOLEAN, json : BOOLEAN, env : {"default"}]
  /\ config \in [environments : {Some(Environments)}, tests : TestLists]
  /\ pc = "start"
  /\ k = 1
  /\ req = [i \in 1..Len(config.tests) |-> NoRequest]
  /\ run = [i \in 1..Len(config.tests) |-> "none"]
  /\ verdict = [i \in 1..Len(config.tests) |-> None]
  /\ results = <<>>
  /\ firstDone = 0
  /\ out = <<>>
  /\ exitCode = None

Next ==
  \/ Start
  \/ SeqLoop
  \/ SeqPush
  \/ SeqPrint
  \/ SeqBail
  \/ SeqThrown
  \/ ParMap
  \/ ParPush
  \/ ParThrown
  \/ ParPrint
  \/ Report
  \/ Exit
  \/ Fatal
  \/ Drain
  \/ Tick
  \/ \E i \in Idx : \E reply \in ServerReplies : ResponseArrives(i, reply)
  \/ \E i \in Idx : ResData(i)
  \/ \E i \in Idx : ResEnd(i)
  \/ \E i \in Idx : ReqError(i)
  \/ \E i \in Idx : ResAborted(i)
  \/ \E i \in Idx : ReqTimeout(i)
  \/ \E i \in Idx : DestroyedCloses(i)

Spec == Init /\ [][Next]_vars

\* ------------------------------------ runs of one test of any shape
\* Each test runs alone; one list has two tests, so that the socket of a
\* request that timed out can close while the run goes on.
WideLists == {<<t>> : t \in WideTests} \cup {<<PlainTest, PlainTest>>}

\* --env names a configured environment or one the config does not have.
EnvNames == {"default", "staging", "prod"}

InitWide ==
  /\ args \in [parallel : BOOLEAN, bail : BOOLEAN, json : BOOLEAN, env : EnvNames]
  /\ config \in [environments : {Some(Environments)}, tests : WideLists]
  /\ pc = "start"
  /\ k = 1
  /\ req = [i \in 1..Len(config.tests) |-> NoRequest]
  /\ run = [i \in 1..Len(config.tests) |-> "none"]
  /\ verdict = [i \in 1..Len(config.tests) |-> None]
  /\ results = <<>>
  /\ firstDone = 0
  /\ out = <<>>
  /\ exitCode = None

NextWide ==
  \/ Start
  \/ SeqLoop
  \/ SeqPush
  \/ SeqPrint
  \/ SeqBail
  \/ SeqThrown
  \/ ParMap
  \/ ParPush
  \/ ParThrown
  \/ ParPrint
  \/ Report
  \/ Exit
  \/ Fatal
  \/ Drain
  \/ Tick
  \/ \E i \in Idx : \E reply \in AnyReplies : ResponseArrives(i, reply)
  \/ \E i \in Idx : ResData(i)
  \/ \E i \in Idx : ResEnd(i)
  \/ \E i \in Idx : ReqError(i)
  \/ \E i \in Idx : ResAborted(i)
  \/ \E i \in Idx : ReqTimeout(i)
  \/ \E i \in Idx : DestroyedCloses(i)

SpecWide == InitWide /\ [][NextWide]_vars

\* ------------------------------------------------------------- properties
\* The report has been written.
HasReport == \E j \in 1..Len(out) : out[j].type \in {"json", "summary"}

TheReport == out[CHOOSE j \in 1..Len(out) : out[j].type \in {"json", "summary"}]

\* runTest has been called for test i.
Dispatched(i) == run[i] # "none"

\* The tests whose verdict is not passed.
NotPassed == {i \in Idx : IsSome(verdict[i]) /\ ~verdict[i][1].passed}

\* No test threw / no response was cut off mid-stream.
NoThrow == \A i \in Idx : run[i] # "rejected"

NoAbort == \A i \in Idx : req[i].phase # "aborted"

\* C1: in sequential mode with --bail, no test is dispatched after a test
\* whose verdict is not passed, and the report lists the verdicts of the
\* tests up to and including the first one that is not passed (all of them
\* if every test passes).
C1_BailStopsAtFirstFailure ==
  (~args.parallel /\ args.bail) =>
    /\ \A i \in Idx : Dispatched(i) =>
         \A j \in 1..(i - 1) : IsSome(verdict[j]) /\ verdict[j][1].passed
    /\ HasReport =>
         /\ Len(TheReport.results) =
              IF NotPassed = {} THEN N
              ELSE CHOOSE i \in NotPassed : \A j \in NotPassed : i <= j
         /\ \A j \in 1..Len(TheReport.results) :
              IsSome(verdict[j]) /\ TheReport.results[j] = verdict[j][1]

\* A sequential --bail run of two tests was cut after the first verdict.
C1_Witness ==
  /\ ~args.parallel /\ args.bail /\ HasReport
  /\ N = 2
  /\ Len(TheReport.results) = 1
  /\ ~TheReport.results[1].passed
  /\ ~Dispatched(2)

\* C2: in parallel mode the report holds one verdict per authored test, the
\* one at position i being the verdict of test i, whichever settled first.
C2_ParallelKeepsAuthoredOrder ==
  (args.parallel /\ HasReport) =>
    /\ Len(TheReport.results) = N
    /\ \A i \in Idx : /\ IsSome(verdict[i])
                      /\ TheReport.results[i] = verdict[i][1]
                      /\ TheReport.results[i].name = config.tests[i].name

\* A parallel run whose second test settled first, with differing verdicts.
C2_Witness ==
  /\ args.parallel /\ HasReport
  /\ N = 2
  /\ firstDone = 2
  /\ TheReport.results[1] # TheReport.results[2]

\* C3 (as claimed): whichever way a request ends, its test gets a verdict:
\* when the process has ended without any test throwing, every test whose
\* request was issued has a verdict.
C3_EveryRequestGetsVerdict ==
  (pc = "exited" /\ NoThrow) =>
    \A i \in Idx : req[i].promise # "none" => IsSome(verdict[i])

\* C4 (as claimed): in sequential mode without --bail and in parallel mode,
\* a run never ends without a report that holds a verdict for every
\* authored test (runs with a response cut off mid-stream set aside).
C4_FailureNeverEndsSuite ==
  (pc = "exited" /\ (args.parallel \/ ~args.bail) /\ NoAbort) =>
    HasReport /\ Len(TheReport.results) = N

\* C5 (as claimed): no request is still in flight more than args.timeout
\* after it was issued.
C5_TimeoutIsDeadline ==
  \A i \in Idx : InFlight(req[i]) => req[i].elapsed <= TimeoutTicks

\* C6: in sequential mode at most one request is in flight, and when test i
\* is dispatched the verdicts of tests 1..i-1 are in `results`.
C6_SequentialOneAtATime ==
  ~args.parallel =>
    /\ Cardinality({i \in Idx : InFlight(req[i])}) <= 1
    /\ \A i \in Idx : Dispatched(i) =>
         /\ Len(results) >= i - 1
         /\ \A j \in 1..(i - 1) : IsSome(verdict[j]) /\ results[j] = verdict[j][1]

\* The second test's request is in flight after the first verdict was pushed.
C6_Witness ==
  /\ ~args.parallel
  /\ N = 2
  /\ InFlight(req[2])
  /\ Len(results) = 1
  /\ req[1].phase # "none"

\* C7: a test whose request failed has a verdict with the error message set,
\* status null, no assertions and passed = false.
C7_TransportFailureVerdict ==
  \A i \in Idx : req[i].promise = "rejected" =>
    /\ IsSome(verdict[i])
    /\ IsSome(verdict[i][1].error)
    /\ verdict[i][1].error = req[i].err
    /\ verdict[i][1].status = None
    /\ verdict[i][1].assertions = <<>>
    /\ ~verdict[i][1].passed

\* A test with expectations whose issued request failed.
C7_Witness ==
  \E i \in Idx : /\ config.tests[i] = HealthTest
                 /\ req[i].promise = "rejected"
                 /\ req[i].phase \in {"failed", "closed"}
                 /\ IsSome(verdict[i])

\* C8: a verdict is passed exactly when the request succeeded and every
\* assertion outcome passed; a test with no expectations passes on any
\* response that was received in full.
C8_PassedIffAllAssertionsPass ==
  \A i \in Idx :
    /\ IsSome(verdict[i]) =>
         (verdict[i][1].passed <=>
            /\ req[i].promise = "resolved"
            /\ \A j \in 1..Len(verdict[i][1].assertions) :
                 verdict[i][1].assertions[j].passed)
    /\ (req[i].promise = "resolved" /\ config.tests[i].expect = NoExpectations) =>
         IsSome(verdict[i]) /\ verdict[i][1].passed

\* A test with no expectations passed on a 500 response.
C8_Witness ==
  \E i \in Idx : /\ config.tests[i] = CreateTest
                 /\ req[i].promise = "resolved"
                 /\ req[i].reply[1].status = 500
                 /\ IsSome(verdict[i])
                 /\ verdict[i][1].passed

\* C9: in parallel mode --bail changes nothing: every test is dispatched, the
\* report comes after every request has settled, and it is the report of
\* the verdicts of all tests, a function of the tests and of how their
\* requests ended only.
C9_ParallelIgnoresBail ==
  args.parallel =>
    /\ pc \notin {"start", "map"} => \A i \in Idx : Dispatched(i)
    /\ \A j \in 1..Len(out) : out[j].type # "bail"
    /\ HasReport =>
         /\ \A i \in Idx : Settled(req[i])
         /\ TheReport.results = [i \in Idx |-> RunTestResult(config.tests[i], req[i])]
         /\ TheReport.total = N

\* A parallel --bail run reported two verdicts, the first of them not passed.
C9_Witness ==
  /\ args.parallel /\ args.bail /\ HasReport
  /\ N = 2
  /\ Len(TheReport.results) = 2
  /\ ~TheReport.results[1].passed

\* C10 (as claimed): the process ends with exit code 0 exactly when the run
\* completed (the report was written) with every verdict passed.
C10_ExitCodeZeroIffAllPassed ==
  pc = "exited" =>
    (exitCode = Some(0) <=> (HasReport /\ ~SomeNotPassed(results)))

\* The per-test lines written so far, in order.
Progress == SelectSeq(out, LAMBDA l : l.type = "test")

\* C11: every report has total = passed + failed and total = the number of
\* verdicts it lists; total is below the number of authored tests only in
\* sequential mode with --bail, the last verdict listed being not passed.
C11_ReportCounts ==
  HasReport =>
    /\ TheReport.total = TheReport.passed + TheReport.failed
    /\ TheReport.total = Len(TheReport.results)
    /\ TheReport.passed = Count(TheReport.results, TRUE)
    /\ TheReport.total <= N
    /\ TheReport.total < N =>
         /\ ~args.parallel /\ args.bail
         /\ TheReport.total > 0
         /\ ~TheReport.results[TheReport.total].passed

\* A JSON report of two verdicts, one passed and one failed on an assertion.
C11_Witness ==
  /\ HasReport /\ args.json
  /\ TheReport.total = 2 /\ TheReport.passed = 1 /\ TheReport.failed = 1
  /\ \A j \in 1..2 : TheReport.results[j].error = None

\* C17: the j-th per-test line is the verdict of test j, written once that
\* verdict exists; in sequential mode the lines of tests 1..i-1 are written
\* before test i is dispatched; in parallel mode no line is written before
\* every test has settled.
C17_ProgressFollowsExecution ==
  /\ \A j \in 1..Len(Progress) :
       /\ j \in Idx
       /\ IsSome(verdict[j])
       /\ Progress[j].results = <<verdict[j][1]>>
  /\ (~args.parallel /\ ~args.json) =>
       \A i \in Idx : Dispatched(i) => Len(Progress) >= i - 1
  /\ (args.parallel /\ Progress # <<>>) =>
       /\ Len(Progress) = N
       /\ \A i \in Idx : Dispatched(i) /\ Settled(req[i])

\* A sequential run: the second request is in flight and the first verdict
\* has been printed.
C17_Witness ==
  /\ N = 2 /\ ~args.json /\ ~args.parallel
  /\ InFlight(req[2])
  /\ Len(Progress) = 1

\* C18: once the promise of makeRequest has settled, no later event changes
\* its state or its reason; the step that settles it gives the test the
\* verdict of that settlement, and no later step changes a verdict.
C18_SettlesOnce ==
  [][\A i \in Idx :
       /\ Settled(req[i]) =>
            /\ req'[i].promise = req[i].promise
            /\ req'[i].err = req[i].err
       /\ IsSome(verdict[i]) => verdict'[i] = verdict[i]
       /\ (~Settled(req[i]) /\ Settled(req'[i])) =>
            verdict'[i] = Some(RunTestResult(config.tests[i], req'[i]))]_vars

\* A request that timed out was rejected a second time ('socket hang up')
\* and its verdict still tells the timeout.
C18_Witness ==
  \E i \in Idx : /\ req[i].settles = 2
                 /\ req[i].promise = "rejected"
                 /\ IsSome(verdict[i])
                 /\ verdict[i][1].error = Some("Timeout after ms")

\* C19: in sequential mode with --bail, every verdict of a report but the
\* last is passed.
C19_BailReportOneFailureLast ==
  (~args.parallel /\ args.bail /\ HasReport) =>
    /\ \A j \in 1..(Len(TheReport.results) - 1) : TheReport.results[j].passed
    /\ TheReport.failed <= 1

\* A sequential --bail report of two verdicts, the last one not passed.
C19_Witness ==
  /\ ~args.parallel /\ args.bail /\ HasReport
  /\ Len(TheReport.results) = 2
  /\ TheReport.results[1].passed
  /\ ~TheReport.results[2].passed

\* The request of test i was answered in full (the promise of makeRequest
\* is resolved); the response runTest received.
Answered(i) == req[i].promise = "resolved"

ResponseOf(i) == NormalizedResponse(req[i].reply[1], req[i].got)

\* The kinds of the checks an expectation set declares, in the order status,
\* body fields, bodyContains strings, bodyNotContains strings, headerContains
\* entries; cs and ncs are the bodyContains and bodyNotContains strings.
DeclaredKinds(e, cs, ncs) ==
  (IF IsSome(e.status) THEN <<"status">> ELSE <<>>)
  \o [j \in 1..(IF IsSome(e.body) THEN Len(e.body[1]) ELSE 0) |-> "body"]
  \o [j \in 1..Len(cs) |-> "contains"]
  \o [j \in 1..Len(ncs) |-> "notContains"]
  \o [j \in 1..(IF IsSome(e.headerContains) THEN Len(e.headerContains[1]) ELSE 0)
        |-> "header"]

\* The strings of a bodyContains / bodyNotContains: all of them, and all of
\* them unless the expectation is one empty string.
AllTerms(strs) == IF IsSome(strs) THEN strs[1].v ELSE <<>>

NonEmptyTerms(strs) ==
  IF IsSome(strs) /\ ~strs[1].arr /\ strs[1].v = << <<>> >> THEN <<>>
  ELSE AllTerms(strs)

OutcomeKinds(i) ==
  [j \in 1..Len(verdict[i][1].assertions) |-> verdict[i][1].assertions[j].kind]

\* C12 (as claimed): for every answered test, the outcomes are one per
\* declared check (status, each body field, each bodyContains string, each
\* bodyNotContains string, each headerContains entry), in that order.
C12_OneOutcomePerDeclaredCheck ==
  \A i \in Idx : Answered(i) =>
    OutcomeKinds(i) =
      DeclaredKinds(config.tests[i].expect,
                    AllTerms(config.tests[i].expect.bodyContains),
                    AllTerms(config.tests[i].expect.bodyNotContains))

\* C12 (amended): the same, a bodyContains / bodyNotContains given as one
\* empty string declaring no check; the strings checked are the declared
\* ones, in their order.
C12_OneOutcomePerNonEmptyCheck ==
  \A i \in Idx : Answered(i) =>
    LET e == config.tests[i].expect
        a == verdict[i][1].assertions
        first == Len(DeclaredKinds(e, <<>>, <<>>))
                 - (IF IsSome(e.headerContains) THEN Len(e.headerContains[1]) ELSE 0)
    IN  /\ OutcomeKinds(i) =
             DeclaredKinds(e, NonEmptyTerms(e.bodyContains),
                           NonEmptyTerms(e.bodyNotContains))
        /\ \A j \in 1..Len(NonEmptyTerms(e.bodyContains)) :
             a[first + j].key = NonEmptyTerms(e.bodyContains)[j]

\* All six checks of the health test were made on a 500 reply, although the
\* first one, the status check, failed.
C12_Witness ==
  \E i \in Idx : /\ Answered(i)
                 /\ config.tests[i] = HealthTest
                 /\ req[i].reply[1].status = 500
                 /\ Len(verdict[i][1].assertions) = 6
                 /\ ~verdict[i][1].assertions[1].passed

\* Structural equality of two values: atoms by kind and text, records by
\* their sets of keys and, key by key, their values, whatever the order in
\* which the keys are written.
RECURSIVE DeepEqual(_, _)
DeepEqual(a, b) ==
  IF a.t # b.t THEN FALSE
  ELSE IF a.t = "obj"
       THEN LET keysOf(v) == {v.kv[j][1] : j \in 1..Len(v.kv)}
            IN  /\ keysOf(a) = keysOf(b)
                /\ \A key \in keysOf(a) :
                     DeepEqual(Lookup(a.kv, key), Lookup(b.kv, key))
       ELSE IF a.t = "text" THEN a.kv = b.kv
       ELSE a.a = b.a

\* C13 (as claimed): the outcome of a body field check is passed exactly
\* when the field of the parsed body is structurally equal to the expected
\* value; a body that is not a record has no fields.
C13_BodyFieldDeepEquality ==
  \A i \in Idx : Answered(i) =>
    LET e == config.tests[i].expect
        a == verdict[i][1].assertions
        first == IF IsSome(e.status) THEN 1 ELSE 0
        body == ResponseOf(i).body
    IN  \A j \in 1..(IF IsSome(e.body) THEN Len(e.body[1]) ELSE 0) :
          /\ a[first + j].kind = "body"
          /\ a[first + j].passed <=>
               /\ body.t = "obj"
               /\ DeepEqual(Lookup(body.kv, e.body[1][j][1]), e.body[1][j][2])

\* C14: a response received in full, whatever its status code, gives a
\* verdict with that status and no error, passed exactly when every
\* assertion outcome passed.
C14_ErrorStatusIsNoTransportFailure ==
  \A i \in Idx : Answered(i) =>
    /\ IsSome(verdict[i])
    /\ verdict[i][1].status = Some(req[i].reply[1].status)
    /\ verdict[i][1].error = None
    /\ verdict[i][1].passed <=>
         \A j \in 1..Len(verdict[i][1].assertions) : verdict[i][1].assertions[j].passed

\* A test that expects 404 passed on a 404 reply.
C14_Witness ==
  \E i \in Idx : /\ Answered(i)
                 /\ config.tests[i] = NotFoundTest
                 /\ verdict[i][1].status = Some(404)
                 /\ verdict[i][1].error = None
                 /\ verdict[i][1].passed

\* An outcome has a detail that says something.
Populated(a) == IsSome(a.detail) /\ a.detail[1] # <<>>

\* C15 (as claimed): checking an answered test raises nothing, every failed
\* outcome has a populated detail and every passed outcome has none.
C15_FailedOutcomesHaveDetail ==
  \A i \in Idx : Answered(i) =>
    /\ verdict[i][1].error = None
    /\ \A j \in 1..Len(verdict[i][1].assertions) :
         LET a == verdict[i][1].assertions[j]
         IN  IF a.passed THEN a.detail = None ELSE Populated(a)

\* C15 (amended): checking an answered test raises nothing; a passed outcome
\* has no detail; a failed status, body field or header outcome has a
\* populated detail; a bodyContains or bodyNotContains outcome has no detail,
\* failed or not.
C15_FailedDetailButForContains ==
  \A i \in Idx : Answered(i) =>
    /\ verdict[i][1].error = None
    /\ \A j \in 1..Len(verdict[i][1].assertions) :
         LET a == verdict[i][1].assertions[j]
         IN  IF a.passed \/ a.kind \in {"contains", "notContains"}
             THEN a.detail = None
             ELSE a.kind \in {"status", "body", "header"} /\ Populated(a)

\* On a 500 reply with neither headers nor body, the health test's status,
\* body field and header checks failed with a detail and its bodyContains
\* check failed without one.
C15_Witness ==
  \E i \in Idx :
    /\ Answered(i)
    /\ config.tests[i] = HealthTest
    /\ req[i].reply[1].status = 500
    /\ LET a == verdict[i][1].assertions
       IN  /\ \A j \in {1, 2, 6} : ~a[j].passed /\ Populated(a[j])
           /\ a[3].kind = "contains" /\ ~a[3].passed /\ a[3].detail = None
           /\ a[5].kind = "notContains" /\ a[5].passed

\* The request of test i was issued (client.request was called).
Issued(i) == req[i].phase # "none"

\* The entries of a header object whose name is Content-Type, in any case.
ContentTypes(headers) ==
  {j \in 1..Len(headers) : ToLowerCase(headers[j][1]) = "content-type"}

\* C16 (as claimed): an issued request has a body written exactly when its
\* test defines a body; Content-Type: application/json is added to the
\* caller's headers exactly when a body is written and the caller's headers
\* set no Content-Type; the request has at most one Content-Type header.
C16_BodyAndContentType ==
  \A i \in Idx : Issued(i) =>
    LET test == config.tests[i]
        caller == Spread(<< <<"User-Agent", <<"api-smoke/1.0.0">> >> >>, Headers(test))
    IN  /\ IsSome(req[i].written) <=> IsSome(test.body)
        /\ IsSome(req[i].written) => req[i].written[1] = Stringify(test.body[1])
        /\ req[i].headers # caller <=>
             (IsSome(req[i].written) /\ ContentTypes(caller) = {})
        /\ req[i].headers # caller =>
             req[i].headers = Append(caller, <<"Content-Type", <<"application", "/", "json">> >>)
        /\ Cardinality(ContentTypes(req[i].headers)) <= 1

\* C20 (as claimed): the environment a run names in its output is a
\* configured one, the baseUrl written next to it is that environment's, and
\* every request of the run carries that environment's default headers.
C20_ReportedEnvironmentIsUsed ==
  LET envs == config.environments[1]
  IN  /\ \A j \in 1..Len(out) : out[j].type \in {"header", "json"} =>
           /\ out[j].environment \in DOMAIN envs
           /\ out[j].baseUrl = envs[out[j].environment].baseUrl
      /\ \A i \in Idx : Issued(i) =>
           /\ args.env \in DOMAIN envs
           /\ req[i].headers =
                ReqHeaders(Spread(envs[args.env].headers, config.tests[i].headers),
                           config.tests[i].body)

====
